---- MODULE Spec2Model ----
(***************************************************************************)
(* Suno_downloader.py: paginated extraction of a private catalog           *)
(* (fetch_page_with_retry, determine_total_pages,                          *)
(* extract_private_song_info), then the per-song download loop of main     *)
(* (get_unique_filename, download_file, embed_metadata).                   *)
(*                                                                         *)
(* Strings are sequences of tokens: a token is one character ("a", ".",    *)
(* " ", "/") or a fixed piece (".mp3", " v2").  None and the empty string  *)
(* are both the empty sequence (both are falsy in the source's tests).     *)
(*                                                                         *)
(* The environment of a run is the endpoint and the catalog it holds       *)
(* (server), which of its requests can fail and how (network), the command *)
(* line (args) and the output directory (fs).  Spec explores catalogs of   *)
(* every length and page size under an unsteady API, SpecCatalog catalogs  *)
(* of every record kind, SpecFiles every output directory under unsteady   *)
(* file requests, SpecPool a batch of more pages than the pool has         *)
(* threads, SpecDiscovery an endpoint with clips on every page, under      *)
(* fairness of determine_total_pages; each also explores one run in which  *)
(* every request can fail in every way.                                    *)
(***************************************************************************)
EXTENDS Integers, Sequences, FiniteSets, TLC

\* ------------------------------------------------------------------------
\* Program constants
\* ------------------------------------------------------------------------
MAX_RETRIES == 10

max_workers == 5

sanitize_maxlen == 200

\* ------------------------------------------------------------------------
\* Bounds of the model
\* ------------------------------------------------------------------------
\* the server's catalog holds at most MaxItems records
MaxItems == 2

\* the server serves between 1 and MaxPerPage records per page
MaxPerPage == 2

\* transient faults hit at most MaxFlaky distinct pages of one parallel batch
MaxFlaky == 1

\* ------------------------------------------------------------------------
\* Small helpers
\* ------------------------------------------------------------------------
None == <<>>

Truthy(x) == x # <<>>

Min(a, b) == IF a < b THEN a ELSE b

\* ------------------------------------------------------------------------
\* The environment: HTTP responses
\* ------------------------------------------------------------------------
\* 0 stands for requests.get raising (timeout, connection error): no response
Statuses == {0, 200, 401, 403, 500}

\* bare JSON array, or an object holding the array under "clips"
BodyShapes == {"list", "object"}

\* response.raise_for_status(): HTTPError for 4xx and 5xx
raise_for_status(status) == status >= 400 /\ status < 600

\* data if isinstance(data, list) else data.get("clips", [])
decode_clips(body) ==
    IF body.shape = "list" THEN body.data
    ELSE IF "clips" \in DOMAIN body.data THEN body.data.clips ELSE <<>>

\* ------------------------------------------------------------------------
\* The environment: the remote catalog
\* ------------------------------------------------------------------------
\* the shapes of raw record the server may hold: identity, title, and
\* whether it has a primary asset (audio) and a cover (image)
SongWithCover == [id |-> <<"u1">>, title |-> <<"a">>, audio |-> TRUE, image |-> TRUE]

SongNoCover == [id |-> <<"u2">>, title |-> <<"a">>, audio |-> TRUE, image |-> FALSE]

RecordKinds ==
    { SongWithCover,
      SongNoCover,
      [id |-> <<"u1">>, title |-> <<"a", " v2", ".">>, audio |-> TRUE, image |-> TRUE],
      [id |-> <<"u2">>, title |-> <<".">>,         audio |-> TRUE,  image |-> FALSE],
      [id |-> None,     title |-> <<"a">>,         audio |-> TRUE,  image |-> TRUE],
      [id |-> <<"u1">>, title |-> None,            audio |-> TRUE,  image |-> FALSE],
      [id |-> <<"u2">>, title |-> <<"a">>,         audio |-> FALSE, image |-> TRUE] }

\* the raw record the server returns for the i-th record of its catalog; the
\* asset URLs name the position, so two occurrences never share a URL
Clip(kind, i) ==
    [id |-> kind.id, title |-> kind.title,
     audio_url |-> IF kind.audio THEN <<"audio", i>> ELSE None,
     image_url |-> IF kind.image THEN <<"image", i>> ELSE None,
     display_name |-> <<"artist">>]

\* the records of page p (1-based) of a catalog served k per page
ServerPage(items, k, p) ==
    LET lo == (p - 1) * k + 1
        hi == Min(p * k, Len(items))
    IN  IF lo > hi THEN <<>> ELSE [j \in 1..(hi - lo + 1) |-> Clip(items[lo + j - 1], lo + j - 1)]

\* what the endpoint `srv` holds for page p: the page of its catalog, or,
\* if it is endless, its pages over and over, so that no page is empty
Served(srv, p) ==
    IF srv.endless
    THEN LET n == (Len(srv.items) + srv.k - 1) \div srv.k
         IN  ServerPage(srv.items, srv.k, ((p - 1) % n) + 1)
    ELSE ServerPage(srv.items, srv.k, p)

\* determine_total_pages is followed up to this page, which is past the
\* first empty page of a catalog of that many records
MaxPage(srv) == Len(srv.items) + 2

\* ------------------------------------------------------------------------
\* fetch_page_with_retry
\* ------------------------------------------------------------------------
\* a call in progress: the loop variable, what it has done so far (reqs
\* requests issued, delays taken, raises), the last status seen, its outcome
NewCall(page_num) ==
    [page |-> page_num, attempt |-> 0, reqs |-> 0, delays |-> 0, raises |-> 0,
     last |-> 200, status |-> "running", clips |-> <<>>]

\* a slip: 403 goes on to raise_for_status like any other error
IsAuthStatus_only401(status) == status = 401

\* response.status_code in [401, 403]
IsAuthStatus(status) == status \in {401, 403}

\* a slip: off by one, the last failure sleeps instead of raising
RetryAllowed_offByOne(attempt, max_retries) == attempt < max_retries

\* if attempt < max_retries - 1: sleep and go round again, else raise
RetryAllowed(attempt, max_retries) == attempt < max_retries - 1

\* except requests.exceptions.RequestException of an attempt of the loop
\* `for attempt in range(max_retries)`; c has already counted the request
OnRequestException(c, max_retries) ==
    IF RetryAllowed(c.attempt, max_retries)
    THEN IF c.attempt + 1 < max_retries
         THEN [c EXCEPT !.attempt = @ + 1, !.delays = @ + 1]
         \* the range is exhausted: the statement after the loop, return [], False
         ELSE [c EXCEPT !.attempt = @ + 1, !.delays = @ + 1,
                        !.status = "ok", !.clips = <<>>]
    ELSE [c EXCEPT !.status = "raised", !.raises = @ + 1]

\* one iteration of the loop of fetch_page_with_retry: the request is issued
\* and answered with `status` (0: requests.get raised) and, if 200, `body`
fetch_page_with_retry(c, status, body, max_retries) ==
    LET d == [c EXCEPT !.reqs = @ + 1, !.last = status]
    IN  IF status = 0 THEN OnRequestException(d, max_retries)
        ELSE IF IsAuthStatus(status) THEN [d EXCEPT !.status = "auth"]
        ELSE IF raise_for_status(status) THEN OnRequestException(d, max_retries)
        ELSE [d EXCEPT !.status = "ok", !.clips = decode_clips(body)]

\* the body the server sends for a list of clips, in one of its two shapes
Body(shape, clips) ==
    IF shape = "list" THEN [shape |-> "list", data |-> clips]
    ELSE [shape |-> "object", data |-> [clips |-> clips]]

\* ------------------------------------------------------------------------
\* State
\* ------------------------------------------------------------------------
VARIABLES
    server,         \* the remote endpoint: [items, k, endless]
    network,        \* how requests can fail in this run: [api, files]
    args,           \* the parsed command line: [token, with_thumbnail]
    fs,             \* the output directory: [dir, files]
    pc,             \* where the main thread is
    token_string,   \* extract_private_song_info's credential
    headers,        \* extract_private_song_info's Authorization header
    calls,          \* how many times determine_total_pages was called
    page,           \* determine_total_pages' loop variable
    fetch,          \* the fetch_page_with_retry call of the main thread
    probed,         \* the pages determine_total_pages has asked for, in order
    total_pages,    \* the page count determine_total_pages returned
    auth_failed,    \* the flag it returned with it: "unset", "True" or "False"
    outcome,        \* how extract_private_song_info ended, "running" until then
    prompts,        \* how many times the operator was asked for a token
    tasks,          \* the futures of the pool: page -> [state, call]
    all_pages_data, \* page -> clips, as collected from as_completed
    flaky,          \* the pages of the batch that met a transient fault
    song_info,      \* the items extracted, in insertion order
    songs,          \* main's songs: what extract_private_song_info returned
    idx,            \* main's position in songs
    dl,             \* the download_file call of the current song
    em,             \* the embed_metadata call of the current song
    done,           \* per song attempted: how its processing ended
    rewritten,      \* the paths a download saved over the rest of a failed attempt
    sent,           \* every request issued: [op, auth, replaced]
    exit_status     \* -1 while running, then the process's exit status

vars == <<server, network, args, fs, pc, token_string, headers, calls, page, fetch, probed,
          total_pages, auth_failed, outcome, prompts, tasks, all_pages_data, flaky, song_info, songs,
          idx, dl, em, done, rewritten, sent, exit_status>>

extractVars == <<token_string, headers, calls, page, fetch, probed, total_pages,
                 auth_failed, prompts>>
poolVars == <<tasks, all_pages_data, flaky>>
loopVars == <<idx, dl, em, done, rewritten>>
envVars == <<server, network, args>>

\* what a request for a catalog page (line 92), or for an audio or cover
\* file (lines 212, 61), may be answered with in this run
\* "faulty": any answer; "unsteady": lost connections and, from the API, a
\* refusal; "healthy": 200 only
ApiAnswers ==
    IF network.api = "faulty" THEN Statuses
    ELSE IF network.api = "unsteady" THEN {0, 200, 401} ELSE {200}

FileAnswers ==
    IF network.files = "faulty" THEN Statuses
    ELSE IF network.files = "unsteady" THEN {0, 200} ELSE {200}

\* f"Bearer {token}"
Bearer(token) == <<"Bearer ">> \o token

\* the credential was replaced at the prompt
Replaced == prompts > 0 /\ token_string # args.token

Log(op, auth) == sent \cup {[op |-> op, auth |-> auth, replaced |-> Replaced]}

NoCall == NewCall(0)

\* ------------------------------------------------------------------------
\* Strings
\* ------------------------------------------------------------------------
RECURSIVE lstrip(_, _)
lstrip(str, chars) ==
    IF str # <<>> /\ Head(str) \in chars THEN lstrip(Tail(str), chars) ELSE str

RECURSIVE rstrip(_, _)
rstrip(str, chars) ==
    IF str # <<>> /\ str[Len(str)] \in chars
    THEN rstrip(SubSeq(str, 1, Len(str) - 1), chars) ELSE str

\* str.strip(chars)
strip(str, chars) == rstrip(lstrip(str, chars), chars)

Whitespace == {" "}

\* ------------------------------------------------------------------------
\* Initial states
\* ------------------------------------------------------------------------
RECURSIVE SeqsUpTo(_, _)
SeqsUpTo(S, n) ==
    IF n = 0 THEN {<<>>}
    ELSE LET shorter == SeqsUpTo(S, n - 1)
         IN  shorter \cup {Append(q, x) : q \in {r \in shorter : Len(r) = n - 1}, x \in S}

Servers == [items : SeqsUpTo(RecordKinds, MaxItems), k : 1..MaxPerPage, endless : {FALSE}]

\* the kinds that extraction keeps
ValidKinds == {r \in RecordKinds : Truthy(r.id) /\ Truthy(r.title) /\ r.audio}

\* a file an earlier run left in the output directory
OldFile == [chunks |-> <<[of |-> <<"old">>, chunk |-> "last"]>>, tagged |-> None]

\* what an earlier run may have left in the directory
OldListings ==
    { {},
      {<<"a", ".mp3">>},
      {<<"a", ".mp3">>, <<"a", " v2", ".mp3">>},
      {<<"a", " v2", ".mp3">>},
      {<<".mp3">>} }

\* the output directory at the start: absent, or present with old files
Directories ==
    {[dir |-> FALSE, files |-> <<>>]}
    \cup {[dir |-> TRUE, files |-> [f \in names |-> OldFile]] : names \in OldListings}

\* T records that are in turn a song with a cover and a song without
Alternating(T) == [i \in 1..T |-> IF i % 2 = 1 THEN SongWithCover ELSE SongNoCover]

\* every request can fail; two songs on one page, a fresh directory
InitAllFaulty ==
    /\ server = [items |-> <<SongWithCover, SongNoCover>>, k |-> 2, endless |-> FALSE]
    /\ network = [api |-> "faulty", files |-> "faulty"]
    /\ args = [token |-> <<"tok0">>, with_thumbnail |-> TRUE]
    /\ fs = [dir |-> FALSE, files |-> <<>>]

\* the API is unsteady; a catalog of any length, served any number per page
InitFaultyApi ==
    /\ server \in [items : {Alternating(T) : T \in 0..MaxItems}, k : 1..MaxPerPage,
                   endless : {FALSE}]
    /\ network = [api |-> "unsteady", files |-> "healthy"]
    /\ args = [token |-> <<"tok0">>, with_thumbnail |-> TRUE]
    /\ fs = [dir |-> FALSE, files |-> <<>>]

\* nothing fails; a catalog of any records
InitAnyCatalog ==
    /\ server \in Servers
    /\ network = [api |-> "healthy", files |-> "healthy"]
    /\ args = [token |-> <<"tok0">>, with_thumbnail |-> TRUE]
    /\ fs = [dir |-> FALSE, files |-> <<>>]

\* the file requests are unsteady; a catalog of complete records on one page, and
\* any directory
InitAnyDirectory ==
    /\ server \in [items : SeqsUpTo(ValidKinds, MaxItems), k : {MaxPerPage},
                   endless : {FALSE}]
    /\ network = [api |-> "healthy", files |-> "unsteady"]
    /\ args \in [token : {<<"tok0">>}, with_thumbnail : BOOLEAN]
    /\ fs \in Directories

\* nothing fails; one page more than the pool has threads
InitFullPool ==
    /\ server = [items |-> Alternating(max_workers + 1), k |-> 1, endless |-> FALSE]
    /\ network = [api |-> "healthy", files |-> "healthy"]
    /\ args = [token |-> <<"tok0">>, with_thumbnail |-> TRUE]
    /\ fs = [dir |-> FALSE, files |-> <<>>]

\* an endpoint that has clips for every page number
InitEndless ==
    /\ server \in [items : {Alternating(T) : T \in 1..MaxItems}, k : 1..MaxPerPage,
                   endless : {TRUE}]
    /\ network \in [api : {"healthy", "faulty"}, files : {"healthy"}]
    /\ args = [token |-> <<"tok0">>, with_thumbnail |-> TRUE]
    /\ fs = [dir |-> FALSE, files |-> <<>>]

\* what the operator may type at the prompt
Inputs == {<<>>, <<" ">>, <<"tok1">>, <<" ", "tok1", " ">>}

\* the program as main calls extract_private_song_info
Start ==
    /\ pc = "discover"
    /\ token_string = args.token
    /\ headers = Bearer(args.token)
    /\ calls = 1
    /\ page = 1
    /\ fetch = NewCall(1)
    /\ probed = <<1>>
    /\ total_pages = 0
    /\ auth_failed = "unset"
    /\ outcome = "running"
    /\ prompts = 0
    /\ tasks = <<>>
    /\ all_pages_data = <<>>
    /\ flaky = {}
    /\ song_info = <<>>
    /\ songs = <<>>
    /\ idx = 0
    /\ dl = <<>>
    /\ em = <<>>
    /\ done = <<>>
    /\ rewritten = {}
    /\ sent = {}
    /\ exit_status = -1

Init == (InitAllFaulty \/ InitFaultyApi) /\ Start

InitCatalog == (InitAllFaulty \/ InitAnyCatalog) /\ Start

InitFiles == (InitAllFaulty \/ InitAnyDirectory) /\ Start

InitPool == (InitAllFaulty \/ InitFaultyApi \/ InitFullPool) /\ Start

InitDiscovery == (InitAllFaulty \/ InitFaultyApi \/ InitEndless) /\ Start

\* ------------------------------------------------------------------------
\* determine_total_pages and the recovery of extract_private_song_info
\* ------------------------------------------------------------------------
\* the main thread's call of fetch_page_with_retry goes round its loop once
DiscoverStep(status, shape) ==
    fetch_page_with_retry(fetch, status,
                          Body(shape, Served(server, fetch.page)),
                          MAX_RETRIES)

\* sys.exit(status), or an exception nobody catches (status 1)
Exit(status) == pc' = "exit" /\ exit_status' = status

\* extract_private_song_info returns {} for the reason `why`: main finds no
\* songs and exits 1
ReturnEmpty(why) == outcome' = why /\ songs' = <<>> /\ Exit(1)

\* a slip: every failed discovery asks again (a loop instead of an if)
CanPrompt_always(n) == TRUE

\* the operator is asked for a token after the first failed discovery only
CanPrompt(n) == n = 1

\* a slip: the empty page is counted
PageCount_withEmpty(first_empty) == first_empty

\* return page - 1, False
PageCount(first_empty) == first_empty - 1

\* a slip: a ceiling on the page count
ReachedEnd_ceiling(clips, page_num) == clips = <<>> \/ page_num >= 2

\* if not clips: the first empty page ends the loop, and nothing else does
ReachedEnd(clips, page_num) == clips = <<>>

\* the request failed and the loop sleeps before the next attempt
DiscoverRetry ==
    /\ pc = "discover"
    /\ \E status \in ApiAnswers, shape \in BodyShapes :
         LET c == DiscoverStep(status, shape)
         IN  /\ c.status = "running"
             /\ fetch' = c
    /\ sent' = Log("page", headers)
    /\ UNCHANGED <<envVars, fs, pc, token_string, headers, calls, page, probed,
                   total_pages, auth_failed, outcome, prompts, poolVars, song_info,
                   songs, loopVars, exit_status>>

\* the last attempt failed: the exception leaves determine_total_pages,
\* extract_private_song_info and main
DiscoverRaise ==
    /\ pc = "discover"
    /\ \E status \in ApiAnswers, shape \in BodyShapes :
         LET c == DiscoverStep(status, shape)
         IN  /\ c.status = "raised"
             /\ fetch' = c
    /\ sent' = Log("page", headers)
    /\ outcome' = "raised"
    /\ Exit(1)
    /\ UNCHANGED <<envVars, fs, token_string, headers, calls, page, probed,
                   total_pages, auth_failed, prompts, poolVars, song_info, songs,
                   loopVars>>

\* 401 or 403: determine_total_pages returns (0, True); the first time the
\* operator is asked for a token, the second time the extraction returns {}
DiscoverAuthFailed ==
    /\ pc = "discover"
    /\ \E status \in ApiAnswers, shape \in BodyShapes :
         LET c == DiscoverStep(status, shape)
         IN  /\ c.status = "auth"
             /\ fetch' = c
    /\ sent' = Log("page", headers)
    /\ total_pages' = 0
    /\ auth_failed' = "True"
    /\ IF CanPrompt(calls)
       THEN pc' = "prompt" /\ UNCHANGED <<outcome, songs, exit_status>>
       ELSE ReturnEmpty("new token failed")
    /\ UNCHANGED <<envVars, fs, token_string, headers, calls, page, probed,
                   prompts, poolVars, song_info, loopVars>>

\* a page with clips: page += 1, a short sleep, and the next fetch begins;
\* the model follows the loop up to page MaxPage(server)
DiscoverNextPage ==
    /\ pc = "discover"
    /\ page < MaxPage(server)
    /\ \E status \in ApiAnswers, shape \in BodyShapes :
         LET c == DiscoverStep(status, shape)
         IN  /\ c.status = "ok"
             /\ ~ReachedEnd(c.clips, page)
    /\ sent' = Log("page", headers)
    /\ page' = page + 1
    /\ fetch' = NewCall(page + 1)
    /\ probed' = Append(probed, page + 1)
    /\ UNCHANGED <<envVars, fs, pc, token_string, headers, calls, total_pages,
                   auth_failed, outcome, prompts, poolVars, song_info, songs, loopVars,
                   exit_status>>

\* executor.submit for every page of 1..n; `late` will tell that the task
\* ended after the main thread had left the loop over as_completed
Submit(n) == [p \in 1..n |-> [state |-> "queued", call |-> NewCall(p), late |-> FALSE]]

\* the first empty page: determine_total_pages returns (page - 1, False);
\* with no page the extraction returns {}, else the batch is submitted
DiscoverLastPage ==
    /\ pc = "discover"
    /\ \E status \in ApiAnswers, shape \in BodyShapes :
         LET c == DiscoverStep(status, shape)
         IN  /\ c.status = "ok"
             /\ ReachedEnd(c.clips, page)
    /\ fetch' = NoCall
    /\ sent' = Log("page", headers)
    /\ total_pages' = PageCount(page)
    /\ auth_failed' = "False"
    /\ IF total_pages' = 0
       THEN ReturnEmpty("no pages") /\ tasks' = tasks
       ELSE /\ tasks' = Submit(total_pages')
            /\ pc' = "bulk"
            /\ UNCHANGED <<outcome, songs, exit_status>>
    /\ UNCHANGED <<envVars, fs, token_string, headers, calls, page, probed,
                   prompts, all_pages_data, flaky, song_info, loopVars>>

\* a slip: the second discovery goes on where the first was refused
FirstPage_resumed(refused_at) == refused_at

\* page = 1, at every call of determine_total_pages
FirstPage(refused_at) == 1

\* input().strip(): a token replaces the credential and discovery runs once
\* more from page 1; nothing typed and the extraction returns {}
Prompt ==
    /\ pc = "prompt"
    /\ prompts' = prompts + 1
    /\ \E raw \in Inputs :
         LET new_token == strip(raw, Whitespace)
         IN  IF Truthy(new_token)
             THEN /\ token_string' = new_token
                  /\ headers' = Bearer(new_token)
                  /\ calls' = calls + 1
                  /\ page' = FirstPage(page)
                  /\ fetch' = NewCall(page')
                  /\ probed' = <<page'>>
                  /\ pc' = "discover"
                  /\ UNCHANGED <<outcome, songs, exit_status>>
             ELSE /\ ReturnEmpty("no new token")
                  /\ UNCHANGED <<token_string, headers, calls, page, fetch, probed>>
    /\ UNCHANGED <<envVars, fs, total_pages, auth_failed, poolVars, song_info,
                   loopVars, sent>>

\* ------------------------------------------------------------------------
\* The parallel stage of extract_private_song_info
\* ------------------------------------------------------------------------
Pages == DOMAIN tasks

Running == {p \in Pages : tasks[p].state = "running"}

Queued == {p \in Pages : tasks[p].state = "queued"}

\* the pages as_completed has handed to the main thread and it kept
Collected == {all_pages_data[i].page_num : i \in DOMAIN all_pages_data}

\* a request that fails with something other than 401/403
IsTransient(status) == status = 0 \/ (raise_for_status(status) /\ ~IsAuthStatus(status))

\* a slip: a thread per task
HasFreeWorker_unbounded(running) == TRUE

\* ThreadPoolExecutor(max_workers=5): a task starts only on one of the
\* pool's threads that is not running a task
HasFreeWorker(running) == Cardinality(running) < max_workers

\* a free worker thread takes the oldest queued task
WorkerStart(p) ==
    /\ pc \in {"bulk", "shutdown"}
    /\ p \in Queued
    /\ \A q \in Queued : p <= q
    /\ HasFreeWorker(Running)
    /\ tasks' = [tasks EXCEPT ![p].state = "running"]
    /\ UNCHANGED <<envVars, fs, pc, extractVars, outcome, all_pages_data, flaky,
                   song_info, songs, loopVars, sent, exit_status>>

\* a worker's call of fetch_page_with_retry goes round its loop once
WorkerRequest(p) ==
    /\ pc \in {"bulk", "shutdown"}
    /\ p \in Running
    /\ \E status \in ApiAnswers, shape \in BodyShapes :
         LET c == fetch_page_with_retry(tasks[p].call, status,
                      Body(shape, Served(server, p)), MAX_RETRIES)
         IN  /\ IsTransient(status) => (p \in flaky \/ Cardinality(flaky) < MaxFlaky)
             /\ flaky' = IF IsTransient(status) THEN flaky \cup {p} ELSE flaky
             /\ tasks' = [tasks EXCEPT ![p] =
                            [state |-> IF c.status = "running" THEN "running" ELSE "done",
                             call |-> c,
                             late |-> c.status # "running" /\ pc = "shutdown"]]
    /\ sent' = Log("page", headers)
    /\ UNCHANGED <<envVars, fs, pc, extractVars, outcome, all_pages_data, song_info,
                   songs, loopVars, exit_status>>

\* a slip: the exception of a page is swallowed and the page skipped
IsAbort_authOnly(status) == status = "auth"

\* a slip: the auth flag of a page is not looked at, its None is kept
IsAbort_raisedOnly(status) == status = "raised"

\* what makes the loop over as_completed return {}: auth_failed, or the
\* exception future.result() raises again
IsAbort(status) == status \in {"auth", "raised"}

\* as_completed yields the future of page p and it holds clips
CollectPage(p) ==
    /\ pc = "bulk"
    /\ p \in Pages \ Collected
    /\ tasks[p].state = "done"
    /\ ~IsAbort(tasks[p].call.status)
    /\ all_pages_data' = Append(all_pages_data,
                                [page_num |-> p, clips |-> tasks[p].call.clips])
    /\ UNCHANGED <<envVars, fs, pc, extractVars, outcome, tasks, flaky, song_info,
                   songs, loopVars, sent, exit_status>>

\* as_completed yields a future that holds an auth failure or an exception:
\* return {} from inside the with block, which first waits for the pool
CollectFailure(p) ==
    /\ pc = "bulk"
    /\ p \in Pages \ Collected
    /\ tasks[p].state = "done"
    /\ IsAbort(tasks[p].call.status)
    /\ pc' = "shutdown"
    /\ UNCHANGED <<envVars, fs, extractVars, outcome, poolVars, song_info, songs,
                   loopVars, sent, exit_status>>

\* a slip: shutdown(wait=False), the return does not wait for the pool
PoolIdle_noWait(t) == TRUE

\* the with block is left through executor.shutdown(wait=True), which
\* returns when every submitted task has run, the queued ones too
PoolIdle(t) == \A p \in DOMAIN t : t[p].state = "done"

\* the pool has run every task; then the {} reaches main
Shutdown ==
    /\ pc = "shutdown"
    /\ PoolIdle(tasks)
    /\ ReturnEmpty("batch aborted")
    /\ UNCHANGED <<envVars, fs, extractVars, poolVars, song_info, loopVars, sent>>

\* ------------------------------------------------------------------------
\* The merge of extract_private_song_info
\* ------------------------------------------------------------------------
RECURSIVE SortedSeq(_)
\* sorted(S) for a set of numbers
SortedSeq(S) ==
    IF S = {} THEN <<>>
    ELSE LET m == CHOOSE x \in S : \A y \in S : x <= y
         IN  <<m>> \o SortedSeq(S \ {m})

\* a slip: the pages are merged in the order they arrived
PageOrder_arrival(data) == [i \in DOMAIN data |-> data[i].page_num]

\* sorted(all_pages_data.keys())
PageOrder(data) == SortedSeq({data[i].page_num : i \in DOMAIN data})

\* all_pages_data[page_num]
ClipsOf(data, page_num) ==
    (CHOOSE e \in {data[i] : i \in DOMAIN data} : e.page_num = page_num).clips

Uuids(info) == {info[i].uuid : i \in DOMAIN info}

\* a slip: the title is not tested
Accepts_anyTitle(info, clip) ==
    /\ Truthy(clip.id) /\ Truthy(clip.audio_url)
    /\ clip.id \notin Uuids(info)

\* (uuid and title and audio_url) and uuid not in song_info
Accepts(info, clip) ==
    /\ Truthy(clip.id) /\ Truthy(clip.title) /\ Truthy(clip.audio_url)
    /\ clip.id \notin Uuids(info)

\* the body of `for clip in clips`
AddClip(info, clip) ==
    IF Accepts(info, clip)
    THEN Append(info, [uuid |-> clip.id, title |-> clip.title,
                       audio_url |-> clip.audio_url, image_url |-> clip.image_url,
                       display_name |-> clip.display_name])
    ELSE info

RECURSIVE AddClips(_, _)
AddClips(info, clips) ==
    IF clips = <<>> THEN info ELSE AddClips(AddClip(info, Head(clips)), Tail(clips))

RECURSIVE AddPages(_, _, _)
AddPages(info, data, order) ==
    IF order = <<>> THEN info
    ELSE AddPages(AddClips(info, ClipsOf(data, Head(order))), data, Tail(order))

\* song_info as built from all_pages_data
MergePages(data) == AddPages(<<>>, data, PageOrder(data))

\* ------------------------------------------------------------------------
\* File names
\* ------------------------------------------------------------------------
\* the characters of FILENAME_BAD_CHARS that the model's titles use
BadChars == {"/"}

\* safe[:maxlen]: each token counts for one character
Truncate(str, maxlen) == IF Len(str) > maxlen THEN SubSeq(str, 1, maxlen) ELSE str

sanitize_filename(name, maxlen) ==
    LET safe == [i \in DOMAIN name |-> IF name[i] \in BadChars THEN "_" ELSE name[i]]
    IN  Truncate(strip(safe, {" ", "."}), maxlen)

\* the tokens that begin with a dot
DotTokens == {".", ".mp3"}

\* os.path.splitext: the extension begins at the last dot, unless only dots
\* come before it
splitext(filename) ==
    LET dots == {i \in DOMAIN filename : filename[i] \in DotTokens}
    IN  IF dots = {} THEN <<filename, <<>>>>
        ELSE LET d == CHOOSE i \in dots : \A j \in dots : j <= i
             IN  IF \E j \in 1..(d - 1) : filename[j] # "."
                 THEN <<SubSeq(filename, 1, d - 1), SubSeq(filename, d, Len(filename))>>
                 ELSE <<filename, <<>>>>

\* f" v{counter}"
VersionSuffix(counter) ==
    <<" v2", " v3", " v4", " v5", " v6", " v7", " v8", " v9">>[counter - 1]

\* f"{name} v{counter}{extn}"
Versioned(filename, counter) ==
    LET parts == splitext(filename)
    IN  parts[1] \o <<VersionSuffix(counter)>> \o parts[2]

RECURSIVE NextFree(_, _, _)
\* the while loop of get_unique_filename
NextFree(filename, counter, existing) ==
    IF Versioned(filename, counter) \notin existing THEN Versioned(filename, counter)
    ELSE NextFree(filename, counter + 1, existing)

\* a slip: the name is used as it is
get_unique_filename_asIs(filename, existing) == filename

\* `existing` is what os.path.exists answers true for
get_unique_filename(filename, existing) ==
    IF filename \notin existing THEN filename ELSE NextFree(filename, 2, existing)

\* ------------------------------------------------------------------------
\* main: the download loop
\* ------------------------------------------------------------------------
Existing(files) == DOMAIN files

\* the body behind a URL, as the chunks iter_content yields
Payload(url) == <<[of |-> url, chunk |-> "first"], [of |-> url, chunk |-> "last"]>>

\* a file: the chunks written to it and the cover embed_metadata saved in it
NewFile(chunks) == [chunks |-> chunks, tagged |-> None]

\* files with path (re)written as content
WriteFile(files, path, content) ==
    [f \in Existing(files) \cup {path} |-> IF f = path THEN content ELSE files[f]]

\* title = obj["title"] or uuid; fname = sanitize_filename(title) + ".mp3"
OutPath(obj) ==
    LET title == IF Truthy(obj.title) THEN obj.title ELSE obj.uuid
    IN  sanitize_filename(title, sanitize_maxlen) \o <<".mp3">>

\* download_file(url, filename, ...) up to its first request: the unique
\* name is resolved against the files that exist now; `last` is the status
\* of its latest response
NewDownload(obj, files) ==
    [url |-> obj.audio_url, filename |-> OutPath(obj),
     unique_filename |-> get_unique_filename(OutPath(obj), Existing(files)),
     before |-> files, attempt |-> 0, reqs |-> 0, delays |-> 0, last |-> 200]

NoDownload == <<>>

NewEmbed(mp3_path, obj) ==
    [mp3_path |-> mp3_path, image_url |-> obj.image_url, attempt |-> 0, reqs |-> 0]

NoEmbed == <<>>

\* headers = {"Authorization": f"Bearer {token}"} if token else {}
TokenHeaders(token) == IF Truthy(token) THEN Bearer(token) ELSE None

\* a slip: a failed song makes the run fail
FinalStatus_failures(results) ==
    IF \E i \in DOMAIN results : results[i].result # "saved" THEN 1 ELSE 0

\* sys.exit(0) after the loop, whatever happened to the songs
FinalStatus(results) == 0

\* a slip: the try has no except, a failed song ends the run
Caught_nothing(result) == result = "saved"

\* except Exception: whatever download_file or embed_metadata raised is
\* reported, and the loop goes on
Caught(result) == result \in {"saved", "download_failed", "embed_failed"}

\* the loop moves on from song idx, which ended as `result`, with the files
\* as they now are: the next song's download_file begins, or sys.exit(0);
\* an exception nobody catches would end the process with status 1
Advance(result, files) ==
    /\ done' = Append(done, [uuid |-> songs[idx].uuid, result |-> result])
    /\ em' = NoEmbed
    /\ IF ~Caught(result)
       THEN /\ idx' = idx
            /\ dl' = NoDownload
            /\ Exit(1)
       ELSE IF idx < Len(songs)
       THEN /\ idx' = idx + 1
            /\ dl' = NewDownload(songs[idx + 1], files)
            /\ pc' = "download"
            /\ exit_status' = exit_status
       ELSE /\ idx' = idx
            /\ dl' = NoDownload
            /\ Exit(FinalStatus(done'))

\* a slip: the directory is made before main looks at the songs
MakesDirectory_first(s) == TRUE

\* os.makedirs comes after `if not songs: sys.exit(1)`
MakesDirectory(s) == s # <<>>

\* every future was collected: the pool is left, the pages are merged and
\* returned; main exits 1 on an empty result, else makes the directory
\* and enters the loop
FinishExtraction ==
    /\ pc = "bulk"
    /\ Collected = Pages
    /\ song_info' = MergePages(all_pages_data)
    /\ songs' = song_info'
    /\ outcome' = "merged"
    /\ tasks' = <<>>
    /\ fs' = IF MakesDirectory(songs') THEN [fs EXCEPT !.dir = TRUE] ELSE fs
    /\ IF songs' = <<>>
       THEN /\ Exit(1)
            /\ UNCHANGED loopVars
       ELSE /\ idx' = 1
            /\ dl' = NewDownload(songs'[1], fs.files)
            /\ pc' = "download"
            /\ UNCHANGED <<em, done, rewritten, exit_status>>
    /\ UNCHANGED <<envVars, extractVars, all_pages_data, flaky, sent>>

\* ------------------------------------------------------------------------
\* download_file
\* ------------------------------------------------------------------------
\* how many chunks of the payload arrive before the connection breaks
Streams == {"complete", "broken"}

FileStreams == IF network.files = "healthy" THEN {"complete"} ELSE Streams

Received(url, stream) ==
    IF stream = "complete" THEN Payload(url) ELSE SubSeq(Payload(url), 1, 1)

\* a slip: the file is opened "ab", an attempt adds to what is there
open_wb_appending(files, path) ==
    IF path \in Existing(files) THEN files[path].chunks ELSE <<>>

\* open(unique_filename, "wb"): the file is created or cut to nothing
open_wb(files, path) == <<>>

\* a slip: the unique name is looked for again at every attempt
WritePath_reresolved(d, files) == get_unique_filename(d.filename, Existing(files))

\* open(unique_filename, "wb"): the name resolved before the loop
WritePath(d, files) == d.unique_filename

\* one iteration of the loop of download_file: the request is answered with
\* `status` (0: requests.get raised); on 200 the file is opened "wb" and the
\* body streamed into it, to the end or until the connection breaks
download_file(d, files, status, stream, max_retries) ==
    LET e == [d EXCEPT !.reqs = @ + 1, !.last = status]
        refused == status = 0 \/ raise_for_status(status)
        written == IF refused THEN files
                   ELSE WriteFile(files, WritePath(d, files),
                                  NewFile(open_wb(files, WritePath(d, files))
                                          \o Received(d.url, stream)))
    IN  IF ~refused /\ stream = "complete"
        THEN [call |-> e, files |-> written, status |-> "returned"]
        ELSE IF d.attempt < max_retries - 1
        THEN [call |-> [e EXCEPT !.attempt = @ + 1, !.delays = @ + 1],
              files |-> written,
              \* past the last round of the loop: return unique_filename
              status |-> IF d.attempt + 1 < max_retries THEN "running" ELSE "returned"]
        ELSE [call |-> e, files |-> written, status |-> "raised"]

DownloadStep(status, stream) ==
    download_file(dl, fs.files, status, stream, MAX_RETRIES)

\* the attempt failed and the loop sleeps before the next one
DownloadRetry ==
    /\ pc = "download"
    /\ \E status \in FileAnswers, stream \in FileStreams :
         LET r == DownloadStep(status, stream)
         IN  /\ r.status = "running"
             /\ dl' = r.call
             /\ fs' = [fs EXCEPT !.files = r.files]
    /\ sent' = Log("file", TokenHeaders(args.token))
    /\ UNCHANGED <<envVars, pc, extractVars, outcome, poolVars, song_info, songs, idx,
                   em, done, rewritten, exit_status>>

\* the last attempt failed: main's except reports the song and goes on
DownloadRaise ==
    /\ pc = "download"
    /\ \E status \in FileAnswers, stream \in FileStreams :
         LET r == DownloadStep(status, stream)
         IN  /\ r.status = "raised"
             /\ fs' = [fs EXCEPT !.files = r.files]
             /\ Advance("download_failed", r.files)
    /\ sent' = Log("file", TokenHeaders(args.token))
    /\ UNCHANGED <<envVars, extractVars, outcome, poolVars, song_info, songs, rewritten>>

\* the file is saved: embed_metadata is called if asked for and the song
\* has a cover, else the loop goes on
DownloadReturn ==
    /\ pc = "download"
    /\ \E status \in FileAnswers, stream \in FileStreams :
         LET r == DownloadStep(status, stream)
         IN  /\ r.status = "returned"
             /\ fs' = [fs EXCEPT !.files = r.files]
             /\ IF args.with_thumbnail /\ Truthy(songs[idx].image_url)
                THEN /\ pc' = "embed"
                     /\ em' = NewEmbed(r.call.unique_filename, songs[idx])
                     /\ dl' = NoDownload
                     /\ UNCHANGED <<idx, done, exit_status>>
                ELSE Advance("saved", r.files)
    /\ rewritten' = IF dl.unique_filename \in Existing(fs.files)
                    THEN rewritten \cup {dl.unique_filename} ELSE rewritten
    /\ sent' = Log("file", TokenHeaders(args.token))
    /\ UNCHANGED <<envVars, extractVars, outcome, poolVars, song_info, songs>>

\* ------------------------------------------------------------------------
\* embed_metadata
\* ------------------------------------------------------------------------
Taggings == {"saved", "error"}

\* one iteration of the loop of embed_metadata; when the image arrives the
\* tags are written into the mp3 (audio.save), unless mutagen raises
embed_metadata(m, files, status, tagging, max_retries) ==
    LET n == [m EXCEPT !.reqs = @ + 1]
        refused == status = 0 \/ raise_for_status(status)
    IN  IF ~refused
        THEN IF tagging = "saved"
             THEN [call |-> n, status |-> "returned",
                   files |-> [files EXCEPT ![m.mp3_path].tagged = m.image_url]]
             ELSE [call |-> n, status |-> "raised", files |-> files]
        ELSE IF m.attempt < max_retries - 1
        THEN [call |-> [n EXCEPT !.attempt = @ + 1], status |-> "running", files |-> files]
        ELSE [call |-> n, status |-> "raised", files |-> files]

EmbedStep(status, tagging) ==
    embed_metadata(em, fs.files, status, tagging, MAX_RETRIES)

EmbedRetry ==
    /\ pc = "embed"
    /\ \E status \in FileAnswers, tagging \in Taggings :
         LET r == EmbedStep(status, tagging)
         IN  /\ r.status = "running"
             /\ em' = r.call
    /\ sent' = Log("cover", TokenHeaders(args.token))
    /\ UNCHANGED <<envVars, fs, pc, extractVars, outcome, poolVars, song_info, songs,
                   idx, dl, done, rewritten, exit_status>>

\* the image could not be fetched, or the tags could not be written: main's
\* except reports the song and goes on
EmbedRaise ==
    /\ pc = "embed"
    /\ \E status \in FileAnswers, tagging \in Taggings :
         LET r == EmbedStep(status, tagging)
         IN  /\ r.status = "raised"
             /\ Advance("embed_failed", fs.files)
    /\ sent' = Log("cover", TokenHeaders(args.token))
    /\ UNCHANGED <<envVars, fs, extractVars, outcome, poolVars, song_info, songs,
                   rewritten>>

EmbedReturn ==
    /\ pc = "embed"
    /\ \E status \in FileAnswers, tagging \in Taggings :
         LET r == EmbedStep(status, tagging)
         IN  /\ r.status = "returned"
             /\ fs' = [fs EXCEPT !.files = r.files]
             /\ Advance("saved", r.files)
    /\ sent' = Log("cover", TokenHeaders(args.token))
    /\ UNCHANGED <<envVars, extractVars, outcome, poolVars, song_info, songs, rewritten>>

\* ------------------------------------------------------------------------
\* The program
\* ------------------------------------------------------------------------
Next ==
    \/ DiscoverRetry
    \/ DiscoverRaise
    \/ DiscoverAuthFailed
    \/ DiscoverNextPage
    \/ DiscoverLastPage
    \/ Prompt
    \/ \E p \in Pages : WorkerStart(p)
    \/ \E p \in Pages : WorkerRequest(p)
    \/ \E p \in Pages : CollectPage(p)
    \/ \E p \in Pages : CollectFailure(p)
    \/ Shutdown
    \/ FinishExtraction
    \/ DownloadRetry
    \/ DownloadRaise
    \/ DownloadReturn
    \/ EmbedRetry
    \/ EmbedRaise
    \/ EmbedReturn

\* a step of determine_total_pages
Discover ==
    \/ DiscoverRetry
    \/ DiscoverRaise
    \/ DiscoverAuthFailed
    \/ DiscoverNextPage
    \/ DiscoverLastPage

\* runs in which the API may fail
Spec == Init /\ [][Next]_vars

\* runs against any catalog
SpecCatalog == InitCatalog /\ [][Next]_vars

\* runs over any output directory, in which the file requests may fail
SpecFiles == InitFiles /\ [][Next]_vars

\* runs in which the API may fail, and runs with more pages than threads
SpecPool == InitPool /\ [][Next]_vars

\* runs in which the API may fail, also against an endless endpoint; the
\* main thread goes on with determine_total_pages whenever it can (every
\* request ends, answered or timed out, and the sleeps are finite)
SpecDiscovery == InitDiscovery /\ [][Next]_vars /\ WF_vars(Discover)

\* ------------------------------------------------------------------------
\* Properties
\* ------------------------------------------------------------------------
\* every call of fetch_page_with_retry in progress or just ended: the main
\* thread's and the workers'
PageCalls == {fetch} \cup {tasks[p].call : p \in DOMAIN tasks}

\* C1: a page fetch never issues an 11th request; one whose 10th request
\* fails with a transient error has raised exactly once, after exactly 10
\* requests and 9 delays; and it raises in no other case
C1_RetryCeiling ==
    \A c \in PageCalls :
        /\ c.reqs <= 10
        /\ c.raises <= 1
        /\ (c.reqs = 10 /\ c.last \notin {200, 401, 403})
              => (c.status = "raised" /\ c.raises = 1 /\ c.delays = 9)
        /\ c.status = "raised"
              => (c.reqs = 10 /\ c.delays = 9 /\ c.raises = 1 /\ c.last \notin {200, 401, 403})

\* a worker's fetch has failed ten times and raised
C1_Witness ==
    \E p \in DOMAIN tasks :
        /\ tasks[p].call.status = "raised"
        /\ tasks[p].call.reqs = 10
        /\ tasks[p].call.delays = 9

\* C2: a 401 or 403 ends the page fetch at once as an auth failure: the call
\* is neither still going round its loop nor raised, it took no delay after
\* that response (one delay per earlier, failed request) and issued no
\* request after it
C2_AuthNotRetried ==
    \A c \in PageCalls :
        /\ (c.reqs > 0 /\ c.last \in {401, 403}) => c.status = "auth"
        /\ c.status = "auth"
              => /\ c.last \in {401, 403}
                 /\ c.raises = 0
                 /\ c.reqs = c.attempt + 1
                 /\ c.delays = c.attempt

\* the main thread's fetch met a 403 on its third request, with budget left
C2_Witness ==
    /\ fetch.status = "auth"
    /\ fetch.last = 403
    /\ fetch.reqs = 3
    /\ fetch.delays = 2

\* C3: once the credential was replaced at the prompt, every request
\* carries the replacement and none the original
C3_CredentialPropagation ==
    \A r \in sent :
        r.replaced => (r.auth = Bearer(token_string) /\ r.auth # Bearer(args.token))

\* C4: the operator is asked at most once; with nothing typed the
\* extraction ends empty there and then (no new fetch, no batch); with a
\* token typed discovery runs exactly once more, and a second auth failure
\* ends the extraction empty with no second prompt and no batch
C4_OneShotRecovery ==
    /\ prompts <= 1
    /\ calls <= 2
    /\ calls = 1 + (IF prompts = 1 /\ token_string # args.token THEN 1 ELSE 0)
    /\ (prompts = 1 /\ calls = 1)
          => /\ pc = "exit" /\ outcome = "no new token"
             /\ songs = <<>> /\ exit_status = 1
             /\ fetch.status = "auth" /\ tasks = <<>> /\ all_pages_data = <<>>
    /\ (calls = 2 /\ fetch.status = "auth")
          => /\ pc = "exit" /\ outcome = "new token failed"
             /\ songs = <<>> /\ exit_status = 1
             /\ prompts = 1 /\ tasks = <<>> /\ all_pages_data = <<>>

\* the replacement token was refused too, on the second page
C4_Witness ==
    /\ calls = 2 /\ prompts = 1
    /\ fetch.status = "auth" /\ fetch.page = 2
    /\ pc = "exit" /\ songs = <<>>

\* ceil(T / k) for a catalog of T records served k per page
CeilPages == (Len(server.items) + server.k - 1) \div server.k

\* C5: determine_total_pages asks for pages 1, 2, ... in order, never for a
\* page past the first empty one, which is page ceil(T / k) + 1, and when it
\* returns a count the count is ceil(T / k)
C5_PaginationCount ==
    /\ \A q \in 1..CeilPages : ServerPage(server.items, server.k, q) # <<>>
    /\ ServerPage(server.items, server.k, CeilPages + 1) = <<>>
    /\ probed = [i \in 1..Len(probed) |-> i]
    /\ Len(probed) <= CeilPages + 1
    /\ auth_failed = "False"
          => (total_pages = CeilPages /\ Len(probed) = CeilPages + 1)

\* one record served two per page: one page is reported after page 2 was
\* found empty, at the first discovery
C5_Witness ==
    /\ auth_failed = "False" /\ prompts = 0
    /\ Len(server.items) = 1 /\ server.k = 2
    /\ total_pages = 1
    /\ probed = <<1, 2>>

\* the catalog as the properties see it: record i, the page it is served
\* on, the entry it would make, and whether it has all it needs
Positions == 1..Len(server.items)

Rec(i) == Clip(server.items[i], i)

PageOfRec(i) == ((i - 1) \div server.k) + 1

EntryOfRec(i) ==
    [uuid |-> Rec(i).id, title |-> Rec(i).title, audio_url |-> Rec(i).audio_url,
     image_url |-> Rec(i).image_url, display_name |-> Rec(i).display_name]

HasAllFields(i) == Rec(i).id # <<>> /\ Rec(i).title # <<>> /\ Rec(i).audio_url # <<>>

\* where the records of identity u are, and where its complete ones are
Occurrences(u) == {i \in Positions : Rec(i).id = u}

CompleteOccurrences(u) == {i \in Occurrences(u) : HasAllFields(i)}

EntriesOf(u) == {j \in DOMAIN song_info : song_info[j].uuid = u}

\* the identities that occur on two different pages
OnTwoPages ==
    {u \in {Rec(i).id : i \in Positions} \ {<<>>} :
        \E i, j \in Occurrences(u) : PageOfRec(i) # PageOfRec(j)}

\* C6 as claimed: an identity that occurs on two pages has exactly one
\* entry in the merged mapping, made from an occurrence on the
\* lowest-numbered of its pages
C6_DedupAsClaimed ==
    outcome = "merged" =>
        \A u \in OnTwoPages :
            /\ Cardinality(EntriesOf(u)) = 1
            /\ \E i \in Occurrences(u) :
                 /\ \A j \in Occurrences(u) : PageOfRec(i) <= PageOfRec(j)
                 /\ \A e \in EntriesOf(u) : song_info[e] = EntryOfRec(i)

\* C6, amended: an identity that occurs on two pages has no entry if none
\* of its occurrences is complete, and otherwise exactly one, made from its
\* first complete occurrence in page order (and in order within the page),
\* whatever the order in which the pages arrived
C6_Dedup ==
    outcome = "merged" =>
        \A u \in OnTwoPages :
            IF CompleteOccurrences(u) = {} THEN EntriesOf(u) = {}
            ELSE /\ Cardinality(EntriesOf(u)) = 1
                 /\ \E i \in CompleteOccurrences(u) :
                      /\ \A j \in CompleteOccurrences(u) : i <= j
                      /\ \A e \in EntriesOf(u) : song_info[e] = EntryOfRec(i)

\* u1 is on pages 1 and 2 under two titles, page 2 arrived first, and the
\* one entry is that of page 1
C6_Witness ==
    /\ outcome = "merged"
    /\ server.k = 1 /\ Len(server.items) = 2
    /\ Rec(1).id = <<"u1">> /\ Rec(2).id = <<"u1">>
    /\ Rec(1).title = <<"a">> /\ Rec(2).title = <<"a", " v2", ".">>
    /\ all_pages_data[1].page_num = 2
    /\ song_info = <<EntryOfRec(1)>>

\* C7: a record without identity, title or audio URL makes no entry; every
\* complete record has its identity in the mapping, and the entry of an
\* identity is that of its first complete record, even when an incomplete
\* record of the same identity came before it
C7_DroppedRecords ==
    outcome = "merged" =>
        /\ \A j \in DOMAIN song_info :
             /\ song_info[j].uuid # <<>>
             /\ song_info[j].title # <<>>
             /\ song_info[j].audio_url # <<>>
             /\ \E i \in Positions : HasAllFields(i) /\ song_info[j] = EntryOfRec(i)
        /\ \A i \in Positions :
             ~HasAllFields(i) =>
                \A j \in DOMAIN song_info :
                    /\ song_info[j] # EntryOfRec(i)
                    /\ Rec(i).audio_url # <<>> => song_info[j].audio_url # Rec(i).audio_url
                    /\ Rec(i).image_url # <<>> => song_info[j].image_url # Rec(i).image_url
        /\ \A i \in Positions :
             HasAllFields(i) =>
                \E j \in DOMAIN song_info, f \in CompleteOccurrences(Rec(i).id) :
                    /\ \A g \in CompleteOccurrences(Rec(i).id) : f <= g
                    /\ song_info[j] = EntryOfRec(f)

\* a record of u1 without title, then a complete record of u1: the entry
\* is the second record's
C7_Witness ==
    /\ outcome = "merged"
    /\ Len(server.items) = 2
    /\ Rec(1).id = <<"u1">> /\ Rec(1).title = <<>>
    /\ Rec(2).id = <<"u1">> /\ HasAllFields(2)
    /\ song_info = <<EntryOfRec(2)>>

\* the desired name with " vN" put before its extension; a name that is
\* nothing but ".mp3" is a dot file without extension to os.path.splitext,
\* and the suffix goes at its end
WithVersion(filename, n) ==
    LET stem == SubSeq(filename, 1, Len(filename) - 1)
        mark == <<" v2", " v3", " v4", " v5", " v6", " v7", " v8", " v9">>[n - 1]
    IN  IF stem = <<>> THEN filename \o <<mark>> ELSE stem \o <<mark>> \o <<".mp3">>

\* the path download_file chose is unused when the call begins, and it is
\* the desired path or its lowest unused version from 2 up
ChosenPathIsFree ==
    pc = "download" =>
        LET used == DOMAIN dl.before
        IN  /\ dl.filename[Len(dl.filename)] = ".mp3"
            /\ dl.unique_filename \notin used
            /\ dl.filename \notin used => dl.unique_filename = dl.filename
            /\ dl.filename \in used =>
                 \E n \in 2..9 :
                    /\ dl.unique_filename = WithVersion(dl.filename, n)
                    /\ \A m \in 2..(n - 1) : WithVersion(dl.filename, m) \in used

\* no step of a download_file call changes or removes a file that existed
\* when the call began
OldFilesKept ==
    pc = "download" =>
        \A f \in DOMAIN dl.before :
            f \in DOMAIN fs'.files /\ fs'.files[f] = dl.before[f]

\* C8: over any sequence of download_file calls, failed ones included, a
\* call never writes or truncates a file that existed before it, and it
\* writes to the desired path if unused, else to the desired name with the
\* lowest unused " vN", N >= 2
C8_CollisionSafeNaming == [](ChosenPathIsFree) /\ [][OldFilesKept]_vars

\* "a.mp3" and "a v2.mp3" were there: the call chose "a v3.mp3" and a
\* failed attempt has already written to it
C8_Witness ==
    /\ pc = "download"
    /\ dl.filename = <<"a", ".mp3">>
    /\ {<<"a", ".mp3">>, <<"a", " v2", ".mp3">>} \subseteq DOMAIN dl.before
    /\ dl.unique_filename = <<"a", " v3", ".mp3">>
    /\ dl.attempt > 0
    /\ dl.unique_filename \in DOMAIN fs.files

\* a page fetch of the batch has exhausted its retries
SomePageRaised == \E p \in DOMAIN tasks : tasks[p].call.status = "raised"

\* while and after a page of the batch raised, nothing is exposed: the
\* extraction can only end aborted, and main exits 1 with no songs; songs are
\* exposed only by a merge of all the pages of 1..total_pages, each with the
\* clips the server holds for it
NothingPartial ==
    /\ SomePageRaised =>
          /\ songs = <<>> /\ song_info = <<>>
          /\ outcome \in {"running", "batch aborted"}
          /\ pc = "exit" => (outcome = "batch aborted" /\ exit_status = 1)
    /\ songs # <<>> =>
          /\ outcome = "merged"
          /\ Collected = 1..total_pages
          /\ \A i \in DOMAIN all_pages_data :
                all_pages_data[i].clips =
                    ServerPage(server.items, server.k, all_pages_data[i].page_num)

\* the step that returns the mapping finds every fetch of 1..total_pages
\* ended with clips
MergeOnlyWhenAllSucceeded ==
    outcome' = "merged" /\ outcome # "merged" =>
        /\ DOMAIN tasks = 1..total_pages
        /\ \A p \in DOMAIN tasks : tasks[p].state = "done" /\ tasks[p].call.status = "ok"

\* C9: if a page fetch of the batch exhausts its retries the extraction
\* aborts and exposes no item, however many pages succeeded; a non-empty
\* mapping is returned only when all the page fetches succeeded
C9_WorkerPoolAbort == [](NothingPartial) /\ [][MergeOnlyWhenAllSucceeded]_vars

\* page 2 raised after page 1 was collected with its clips: the run ended
\* with nothing
C9_Witness ==
    /\ pc = "exit" /\ outcome = "batch aborted"
    /\ Len(tasks) = 2
    /\ tasks[2].call.status = "raised"
    /\ tasks[1].call.status = "ok" /\ tasks[1].call.clips # <<>>
    /\ Collected = {1}
    /\ songs = <<>>

\* C10: the process exits 1 when the extraction gave no item (whichever
\* way it ended) and 0 when it gave at least one, whatever became of the
\* songs
C10_ExitStatus ==
    /\ pc # "exit" => exit_status = -1
    /\ pc = "exit" =>
          /\ exit_status = (IF songs = <<>> THEN 1 ELSE 0)
          /\ outcome # "merged" => (songs = <<>> /\ exit_status = 1)
          /\ exit_status = 0 => (Len(done) = Len(songs) /\ outcome = "merged")

\* two songs, the download of one and the embed of the other failed: exit 0
C10_Witness ==
    /\ pc = "exit" /\ exit_status = 0
    /\ Len(songs) = 2 /\ Len(done) = 2
    /\ done[1].result = "embed_failed"
    /\ done[2].result = "download_failed"

\* the identities of a sequence of songs or of results, in order
UuidsInOrder(s) == [i \in DOMAIN s |-> s[i].uuid]

\* the songs before the current one have each one result, in the order of
\* the extracted set, and the current one has a call of its own in progress
AttemptedInOrder ==
    /\ pc \in {"download", "embed"} =>
          /\ idx \in 1..Len(songs)
          /\ Len(done) = idx - 1
          /\ UuidsInOrder(done) = UuidsInOrder(SubSeq(songs, 1, idx - 1))
          /\ pc = "download" => (dl.url = songs[idx].audio_url /\ em = NoEmbed)
          /\ pc = "embed" => em.image_url = songs[idx].image_url
    /\ (pc = "exit" /\ songs # <<>>) => UuidsInOrder(done) = UuidsInOrder(songs)

\* a song that ends, failed or not, is followed by the download of the next
\* song of the set, begun afresh, and the last one by the end of the run
FailureEndsOneItem ==
    Len(done') > Len(done) =>
        /\ done' = Append(done, done'[Len(done')])
        /\ done'[Len(done')].uuid = songs[idx].uuid
        /\ songs' = songs
        /\ IF idx < Len(songs)
           THEN /\ pc' = "download" /\ idx' = idx + 1
                /\ dl'.url = songs[idx + 1].audio_url /\ dl'.reqs = 0
           ELSE pc' = "exit" /\ exit_status' = 0

\* C11: in the loop of main a download or an embed that fails for good ends
\* that song only: every song of the extracted set is attempted exactly
\* once, in the order of the set, also after a song that failed
C11_FailureIsolation == [](AttemptedInOrder) /\ [][FailureEndsOneItem]_vars

\* the first song's download failed for good, the second song was saved
C11_Witness ==
    /\ pc = "exit" /\ Len(songs) = 2
    /\ Len(done) = 2
    /\ done[1].result = "download_failed"
    /\ done[2].result = "saved"

\* C12: a 401 or 403 answer to a file request ends the download_file call:
\* no call is still going round its loop with such an answer behind it
C12_DownloadAuthNotRetried ==
    pc = "download" => ~(dl.reqs > 0 /\ dl.last \in {401, 403})

\* the calls that may have a request in flight: the running tasks of the
\* pool, and the main thread's page fetch, download or cover fetch
InFlight ==
    Cardinality({p \in DOMAIN tasks : tasks[p].state = "running"})
    + (IF pc = "discover" /\ fetch.status = "running" THEN 1 ELSE 0)
    + (IF dl # <<>> THEN 1 ELSE 0)
    + (IF em # <<>> THEN 1 ELSE 0)

\* C13: at most 5 page fetches of the batch run at any time, whatever the
\* page count; the batch holds exactly one fetch per page of 1..N, each for
\* its own page; outside the parallel stage no task of the pool is queued or
\* running and at most one call of the main thread is in progress
C13_BoundedParallelism ==
    /\ Cardinality({p \in DOMAIN tasks : tasks[p].state = "running"}) <= 5
    /\ pc \in {"bulk", "shutdown"} =>
          /\ total_pages >= 1
          /\ DOMAIN tasks = 1..total_pages
          /\ \A p \in DOMAIN tasks : tasks[p].call.page = p
          /\ dl = <<>> /\ em = <<>>
    /\ pc \notin {"bulk", "shutdown"} =>
          /\ \A p \in DOMAIN tasks : tasks[p].state = "done"
          /\ InFlight <= 1

\* six pages: five fetches run and the sixth waits for a thread
C13_Witness ==
    /\ pc = "bulk"
    /\ Len(tasks) = 6
    /\ \A p \in 1..5 : tasks[p].state = "running"
    /\ tasks[6].state = "queued"

\* once the extraction has returned {} from the loop over as_completed, every
\* fetch of the batch has run to its end, and those that ended after the
\* abort left nothing behind
AbortedBatchHasRun ==
    /\ pc = "shutdown" => (outcome = "running" /\ songs = <<>>)
    /\ outcome = "batch aborted" =>
          /\ DOMAIN tasks = 1..total_pages /\ total_pages >= 1
          /\ \A p \in DOMAIN tasks :
                /\ tasks[p].state = "done"
                /\ tasks[p].call.reqs >= 1
                /\ tasks[p].call.status \in {"ok", "auth", "raised"}
                /\ tasks[p].late =>
                      \A i \in DOMAIN all_pages_data : all_pages_data[i].page_num # p
          /\ songs = <<>> /\ song_info = <<>>

\* no task is cancelled or run again, the extraction returns (with {} or
\* with the merge) only when every task is done, and after the abort no
\* result is taken
NoTaskCancelled ==
    /\ \A p \in DOMAIN tasks :
          \/ tasks' = <<>> /\ outcome' = "merged"
          \/ /\ DOMAIN tasks' = DOMAIN tasks
             /\ tasks[p].state = "done" => tasks'[p] = tasks[p]
             /\ tasks[p].state = "running" => tasks'[p].state \in {"running", "done"}
    /\ (outcome = "running" /\ outcome' \in {"batch aborted", "merged"}) =>
          \A p \in DOMAIN tasks : tasks[p].state = "done"
    /\ pc = "shutdown" =>
          /\ all_pages_data' = all_pages_data
          /\ song_info' = song_info /\ songs' = <<>>
          /\ pc' \in {"shutdown", "exit"}

\* C14: after a fetch of the batch signalled the abort, every other fetch,
\* running or queued, still runs to its end; the extraction returns, and
\* the merge begins, only when all N are done; what ends after the abort is
\* thrown away
C14_NoCancellation == [](AbortedBatchHasRun) /\ [][NoTaskCancelled]_vars

\* page 1 was refused and the abort signalled; page 2 then fetched its
\* clips, and the run ended with nothing
C14_Witness ==
    /\ pc = "exit" /\ outcome = "batch aborted"
    /\ Len(tasks) = 2
    /\ tasks[1].call.status = "auth" /\ ~tasks[1].late
    /\ tasks[2].late /\ tasks[2].call.status = "ok" /\ tasks[2].call.clips # <<>>
    /\ all_pages_data = <<>> /\ songs = <<>>

\* a page fetch of the batch was answered 401 or 403
SomePageRefused == \E p \in DOMAIN tasks : tasks[p].call.status = "auth"

\* from then on the extraction is on its way to the empty result: nothing
\* is merged, and the run ends with status 1
RefusedBatchAborts ==
    SomePageRefused =>
        /\ pc \in {"bulk", "shutdown", "exit"}
        /\ songs = <<>> /\ song_info = <<>>
        /\ outcome \in {"running", "batch aborted"}
        /\ pc = "exit" => (outcome = "batch aborted" /\ exit_status = 1)

\* and nothing is tried again: no prompt, no new credential, no discovery,
\* no new batch, no new request for the refused page
RefusedBatchNotRetried ==
    SomePageRefused =>
        /\ prompts' = prompts /\ calls' = calls
        /\ token_string' = token_string /\ headers' = headers
        /\ probed' = probed /\ fetch' = fetch /\ total_pages' = total_pages
        /\ DOMAIN tasks' = DOMAIN tasks
        /\ \A p \in DOMAIN tasks :
              /\ tasks[p].call.status = "auth" => tasks'[p] = tasks[p]
              /\ tasks'[p].call.reqs >= tasks[p].call.reqs

\* C15: an auth failure of a page fetch of the batch is final: the
\* extraction returns empty, the operator is not asked, and neither
\* discovery nor the batch runs again, whether the credential is the
\* original or one typed at the prompt
C15_AsymmetricRecovery == [](RefusedBatchAborts) /\ [][RefusedBatchNotRetried]_vars

\* the token typed at the prompt passed discovery and was refused in the
\* batch: the run ended empty after that one prompt
C15_Witness ==
    /\ pc = "exit" /\ outcome = "batch aborted"
    /\ prompts = 1 /\ calls = 2 /\ token_string = <<"tok1">>
    /\ \E p \in DOMAIN tasks : tasks[p].call.status = "auth"
    /\ songs = <<>>

\* a discovery whose fetch was answered 401 or 403 has returned at once,
\* with the flag and without a count: the main thread is at the prompt or
\* the run is over, and no batch exists
RefusedDiscoveryReturns ==
    fetch.status = "auth" =>
        /\ pc \in {"prompt", "exit"}
        /\ auth_failed = "True" /\ total_pages = 0
        /\ fetch.page = page /\ probed = [i \in 1..page |-> i]
        /\ tasks = <<>>

\* after it no request goes out until a token was typed, and the discovery
\* that then begins asks for page 1 first, with the typed token
RefusedDiscoveryRestarts ==
    fetch.status = "auth" =>
        /\ sent' = sent
        /\ \/ fetch' = fetch /\ probed' = probed /\ headers' = headers
           \/ /\ pc' = "discover" /\ calls' = calls + 1
              /\ page' = 1 /\ probed' = <<1>>
              /\ fetch'.page = 1 /\ fetch'.reqs = 0 /\ fetch'.status = "running"
              /\ token_string' # <<>> /\ headers' = <<"Bearer ">> \o token_string'

\* C16: when the fetch of a page, the first or a later one, is answered 401
\* or 403, determine_total_pages returns at once with the auth flag and no
\* page count and sends nothing more with that credential; the discovery
\* with the replacement begins again at page 1
C16_DiscoveryAuthPropagation ==
    [](RefusedDiscoveryReturns) /\ [][RefusedDiscoveryRestarts]_vars

\* page 1 held clips, page 2 was answered 403 on its second request: the
\* operator is asked, with no page count
C16_Witness ==
    /\ pc = "prompt" /\ calls = 1
    /\ probed = <<1, 2>>
    /\ fetch.page = 2 /\ fetch.status = "auth" /\ fetch.last = 403 /\ fetch.reqs = 2
    /\ total_pages = 0 /\ auth_failed = "True"

\* what a download_file call may have added to the directory: nothing but
\* the one path it resolved, and nothing at all before its first request
OneNewFile ==
    pc = "download" =>
        /\ DOMAIN fs.files \subseteq (DOMAIN dl.before \cup {dl.unique_filename})
        /\ dl.reqs = 0 => fs.files = dl.before
        /\ dl.reqs = dl.attempt /\ dl.attempt <= 9

\* an attempt of the call that does not end it
CallGoesOn == pc = "download" /\ pc' = "download" /\ idx' = idx

\* the step in which download_file raises to main
CallRaises ==
    /\ pc = "download" /\ Len(done') = Len(done) + 1
    /\ done'[Len(done')].result = "download_failed"

\* the path stays as resolved from attempt to attempt and every write goes
\* to it; the call raises only at its 10th failed attempt, main records the
\* failure, and the file a failed attempt left is still there, short of the
\* payload
PathResolvedOnce ==
    /\ CallGoesOn =>
          /\ dl'.unique_filename = dl.unique_filename
          /\ dl'.filename = dl.filename /\ dl'.before = dl.before
          /\ dl'.attempt = dl.attempt + 1
    /\ pc = "download" =>
          /\ DOMAIN fs'.files \subseteq (DOMAIN dl.before \cup {dl.unique_filename})
          /\ \A f \in DOMAIN fs'.files :
                f # dl.unique_filename => (f \in DOMAIN fs.files /\ fs'.files[f] = fs.files[f])
    /\ CallRaises =>
          /\ dl.attempt = 9
          /\ done'[Len(done')].uuid = songs[idx].uuid
          /\ em' = <<>>
          /\ dl.unique_filename \in DOMAIN fs.files =>
                /\ dl.unique_filename \in DOMAIN fs'.files
                /\ fs'.files[dl.unique_filename].chunks
                       = <<[of |-> dl.url, chunk |-> "first"]>>

\* C17: a download_file call resolves its path once, before its first
\* request; every attempt writes to that path and the call adds at most that
\* one file; when the 10th attempt fails the error reaches main and what a
\* failed attempt wrote stays on disk
C17_SinglePathResolution == [](OneNewFile) /\ [][PathResolvedOnce]_vars

\* a song's download failed for good and the first chunk of its audio is
\* what is left of it on disk
C17_Witness ==
    \E i \in DOMAIN done :
        /\ done[i].result = "download_failed"
        /\ \E f \in DOMAIN fs.files :
              fs.files[f].chunks = <<[of |-> songs[i].audio_url, chunk |-> "first"]>>

\* while determine_total_pages runs none of the three has happened: every
\* page before the current one held clips, and the current fetch has been
\* neither refused nor given up
StillDiscovering ==
    pc = "discover" =>
        /\ fetch.status = "running" /\ fetch.page = page /\ fetch.reqs < 10
        /\ \A q \in 1..(page - 1) : Served(server, q) # <<>>

\* the step that ends determine_total_pages is one of the three: the page
\* asked for is empty, the fetch was refused, or its 10th request failed
EndsForAReason ==
    (pc = "discover" /\ pc' # "discover") =>
        \/ /\ auth_failed' = "False" /\ total_pages' = page - 1
           /\ Served(server, page) = <<>>
        \/ /\ fetch'.status = "auth" /\ fetch'.last \in {401, 403}
           /\ auth_failed' = "True"
        \/ /\ fetch'.status = "raised" /\ fetch'.reqs = 10
           /\ pc' = "exit"

\* against an endless endpoint no page count is ever returned, and if no
\* request fails determine_total_pages never returns at all
EndlessNeverCounted ==
    server.endless =>
        /\ auth_failed # "False" /\ tasks = <<>> /\ songs = <<>>
        /\ outcome \notin {"no pages", "merged", "batch aborted"}
        /\ network.api = "healthy" => (pc = "discover" /\ calls = 1)

\* against a catalog with a last page, a determine_total_pages that runs
\* comes to its end
FiniteTerminates == (pc = "discover" /\ ~server.endless) ~> (pc # "discover")

\* C18: determine_total_pages ends exactly when it meets an empty page, an
\* auth failure or a fetch that gave up; it does end against a catalog with
\* finitely many pages, and against an endpoint with clips on every page it
\* ends by no page count, however far it gets
C18_DiscoveryTermination ==
    /\ [](StillDiscovering)
    /\ [](EndlessNeverCounted)
    /\ [][EndsForAReason]_vars
    /\ FiniteTerminates

\* an endless endpoint of two records a page apiece: determine_total_pages
\* is asking for page 4
C18_Witness ==
    /\ server.endless /\ network.api = "healthy"
    /\ Len(server.items) = 2 /\ server.k = 1
    /\ pc = "discover" /\ page = 4
    /\ probed = <<1, 2, 3, 4>>

\* the whole body behind `url`, as written to a file
WholeBody(url) == <<[of |-> url, chunk |-> "first"], [of |-> url, chunk |-> "last"]>>

\* a call that has issued a request and goes on has not saved the body yet,
\* and a path that was saved over what a failed attempt left holds one whole
\* body
NothingSurvives ==
    /\ (pc = "download" /\ dl.reqs > 0 /\ dl.unique_filename \in DOMAIN fs.files) =>
          fs.files[dl.unique_filename].chunks = <<[of |-> dl.url, chunk |-> "first"]>>
    /\ \A f \in rewritten :
          /\ f \in DOMAIN fs.files
          /\ \E i \in DOMAIN songs : fs.files[f].chunks = WholeBody(songs[i].audio_url)

\* the step in which download_file returns its path
CallReturns ==
    /\ pc = "download"
    /\ \/ pc' = "embed"
       \/ Len(done') = Len(done) + 1 /\ done'[Len(done')].result = "saved"

\* the attempt that succeeds, the first or a later one, leaves the body it
\* received and nothing else in the file, hands the resolved path to main,
\* and is the call's last request
SuccessRewrites ==
    CallReturns =>
        /\ dl.unique_filename \in DOMAIN fs'.files
        /\ fs'.files[dl.unique_filename] = [chunks |-> WholeBody(dl.url), tagged |-> <<>>]
        /\ pc' = "embed" => (em'.mp3_path = dl.unique_filename /\ em'.reqs = 0)
        /\ dl' = <<>> \/ (dl'.reqs = 0 /\ dl'.url # dl.url)
        /\ Cardinality(sent') <= Cardinality(sent) + 1

\* C19: a download that succeeds on a later attempt, after attempts that
\* broke off part-way, leaves a file that holds exactly the body of the
\* successful attempt; the call returns the resolved path and sends nothing
\* after that attempt
C19_RetryRewritesFile == [](NothingSurvives) /\ [][SuccessRewrites]_vars

\* "a.mp3" was saved whole over the first chunk a broken attempt had left
C19_Witness ==
    /\ <<"a", ".mp3">> \in rewritten
    /\ fs.files[<<"a", ".mp3">>].chunks = WholeBody(<<"audio", 1>>)
    /\ Len(done) >= 1 /\ done[1].result = "saved"

\* as long as main holds no songs the loop has not begun: no download or
\* embed call exists or has ended, and only pages were requested
NoItemsNoCalls ==
    songs = <<>> =>
        /\ dl = <<>> /\ em = <<>> /\ done = <<>> /\ idx = 0 /\ rewritten = {}
        /\ \A r \in sent : r.op = "page"
        /\ pc = "exit" => exit_status = 1

\* and no step that leaves main without songs touches the directory
NoItemsNoWrites == songs' = <<>> => fs' = fs

\* C20: a run whose extraction gives no item, however it ended, downloads
\* and embeds nothing and leaves the filesystem as it was: the directory is
\* not made and no file is written
C20_EmptyRunLeavesNoTrace == [](NoItemsNoCalls) /\ [][NoItemsNoWrites]_vars

\* every page was fetched and no record was complete: the run ended with
\* status 1 and no directory
C20_Witness ==
    /\ pc = "exit" /\ exit_status = 1
    /\ outcome = "merged" /\ songs = <<>>
    /\ all_pages_data # <<>> /\ Len(server.items) = 2
    /\ fs = [dir |-> FALSE, files |-> <<>>]
    /\ sent # {}

====
